---- MODULE Spec2Model ----
(***************************************************************************)
(* Model of the audio-to-MEI alignment pipeline (src/main.py, src/mei.py). *)
(*                                                                         *)
(* Python dicts are modelled as insertion-ordered sequences of             *)
(* <<key, value>> pairs with unique keys.  Optional values (None) are      *)
(* sequences of length 0 or 1.  Real-valued quantities are exact reduced   *)
(* fractions <<numerator, denominator>>.  Strings that the code parses     *)
(* (measure numbers) are sequences of one-character strings.               *)
(***************************************************************************)
EXTENDS Integers, Sequences, FiniteSets, TLC

VARIABLES
  pc,                  \* position of the run / of the function under study
  executed,            \* stages entered so far, in order
  failed,              \* stages whose handler reported an exception, in order
  exit_status,         \* <<>> while running, <<1>> after sys.exit(1), <<0>> at normal end
  mei_xml,             \* the score document: elements and measure structure
  audio,               \* audio_data length, frame_rate, trim_start
  chroma_mei,          \* score chroma matrix: width and cells, 12 rows of width columns
  id_to_chroma_index,  \* dict identifier -> column
  chroma_audio,        \* column count of the audio chroma matrix
  path,                \* warp path as returned by the DTW call
  path_dict,           \* dict score_column -> audio_column
  id_to_time,          \* dict identifier -> seconds
  tmp_output,          \* content of ./data/tmp_output.json
  mapping,             \* list of measure entries
  filtered_mapping     \* result of filter_measures_by_tstamp

vars == <<pc, executed, failed, exit_status, mei_xml, audio, chroma_mei,
          id_to_chroma_index, chroma_audio, path, path_dict, id_to_time,
          tmp_output, mapping, filtered_mapping>>

----------------------------------------------------------------------------
\* Bounds of the model

\* scores given to _meico_to_chroma on its own
MaxElems == 2
MaxDate == 1
MaxDur == 2

\* scores of overlapping notes
OverlapElems == 3
OverlapMaxDate == 0
OverlapMaxDur == 2

\* lists given to filter_measures_by_tstamp, timestamps of both measure functions
MaxEntries == 3
MaxTs == 1

\* scores and audio chroma widths of a whole run
PipeMaxElems == 2
PipeMaxDate == 1
PipeMaxDur == 2
MaxAudioCols == 2

----------------------------------------------------------------------------
\* Arithmetic helpers

Min(a, b) == IF a <= b THEN a ELSE b

Max(a, b) == IF a >= b THEN a ELSE b

\* math.floor(a / b) for a >= 0, b > 0
Floor(a, b) == a \div b

\* math.ceil(a / b) for a >= 0, b > 0
Ceil(a, b) == (a + b - 1) \div b

RECURSIVE GCD(_, _)
GCD(a, b) == IF b = 0 THEN a ELSE GCD(b, a % b)

\* the real number n/d (n >= 0, d > 0) in lowest terms
Frac(n, d) == LET g == GCD(n, d) IN <<n \div g, d \div g>>

FracLt(x, y) == x[1] * y[2] < y[1] * x[2]

FracLe(x, y) == x[1] * y[2] <= y[1] * x[2]

\* Python round() of n/d: round half to even
Round(n, d) ==
  LET q == n \div d
      r == n % d
  IN IF 2 * r < d THEN q
     ELSE IF 2 * r > d THEN q + 1
     ELSE IF q % 2 = 0 THEN q ELSE q + 1

----------------------------------------------------------------------------
\* Python dict as an insertion-ordered sequence of <<key, value>> pairs

DictKeys(d) == {d[i][1] : i \in 1..Len(d)}

DictHas(d, k) == k \in DictKeys(d)

DictGet(d, k) == LET i == CHOOSE i \in 1..Len(d) : d[i][1] = k IN d[i][2]

\* d[k] = v: a new key is appended, an existing key keeps its position
DictPut(d, k, v) ==
  IF DictHas(d, k)
  THEN [i \in 1..Len(d) |-> IF d[i][1] = k THEN <<k, v>> ELSE d[i]]
  ELSE Append(d, <<k, v>>)

DictValues(d) == [i \in 1..Len(d) |-> d[i][2]]

\* {key: value for (key, value) in pairs}
RECURSIVE DictFromPairs(_)
DictFromPairs(pairs) ==
  IF pairs = <<>> THEN <<>>
  ELSE LET n == Len(pairs)
       IN DictPut(DictFromPairs(SubSeq(pairs, 1, n - 1)), pairs[n][1], pairs[n][2])

----------------------------------------------------------------------------
\* Score elements (meico-expanded MEI)

PNums == {60, 67}

Ids == <<"e1", "e2", "e3", "e4">>

\* notes and rests with midi.date and midi.dur
TimedShapes(pnums, dates, durs) ==
  [tag : {"note"}, pnum : pnums, hasDur : {TRUE}, date : dates, dur : durs]
  \cup [tag : {"rest"}, pnum : {0}, hasDur : {TRUE}, date : dates, dur : durs]

\* notes and rests lacking midi.dur
UntimedShapes ==
  {[tag |-> "note", pnum |-> 60, hasDur |-> FALSE, date |-> 0, dur |-> 0],
   [tag |-> "rest", pnum |-> 0, hasDur |-> FALSE, date |-> 0, dur |-> 0]}

\* an element with midi.date / midi.dur, or one lacking midi.dur
ElementShapes(maxDate, maxDur) ==
  TimedShapes(PNums, 0..maxDate, 0..maxDur) \cup UntimedShapes

\* the elements of a document, given their shapes in document order;
\* element i carries the identifier Ids[i]
Score(shapes) ==
  [i \in 1..Len(shapes) |->
     [id |-> Ids[i], tag |-> shapes[i].tag, pnum |-> shapes[i].pnum,
      hasDur |-> shapes[i].hasDur, date |-> shapes[i].date, dur |-> shapes[i].dur]]

----------------------------------------------------------------------------
\* _meico_to_chroma (src/mei.py)

\* variant of Qualifying: the xpath selects notes only
QualifyingNotesOnly(elems) ==
  SelectSeq(elems, LAMBDA e : e.tag = "note" /\ e.hasDur)

\* the xpath of the first loop: notes and rests carrying midi.dur, document order
Qualifying(elems) ==
  SelectSeq(elems, LAMBDA e : e.tag \in {"note", "rest"} /\ e.hasDur)

\* pitch is None for anything but a note
Pitch(e) == IF e.tag = "note" THEN <<e.pnum>> ELSE <<>>

\* notes_and_rests after the first loop
NotesAndRests(elems) ==
  LET q == Qualifying(elems)
  IN DictFromPairs([i \in 1..Len(q) |->
       <<q[i].id, [pitch |-> Pitch(q[i]), date |-> q[i].date, dur |-> q[i].dur]>>])

\* shortest_duration after the first loop; <<>> stands for np.inf
RECURSIVE ShortestDuration(_)
ShortestDuration(q) ==
  IF q = <<>> THEN <<>>
  ELSE LET n == Len(q)
           rest == ShortestDuration(SubSeq(q, 1, n - 1))
       IN IF rest = <<>> THEN <<q[n].dur>> ELSE <<Min(rest[1], q[n].dur)>>

\* highest_date after the first loop
RECURSIVE HighestDate(_)
HighestDate(q) ==
  IF q = <<>> THEN 0
  ELSE LET n == Len(q)
       IN Max(HighestDate(SubSeq(q, 1, n - 1)), q[n].date + q[n].dur)

\* variant of ChromaWidth: an empty score is rejected
ChromaWidthGuarded(shortest, highest) ==
  IF shortest = <<>> THEN <<>>
  ELSE IF shortest[1] = 0 THEN <<>>
  ELSE <<highest \div shortest[1]>>

\* int(highest_date / shortest_duration); <<>> when the division raises
ChromaWidth(shortest, highest) ==
  IF shortest = <<>> THEN <<0>>
  ELSE IF shortest[1] = 0 THEN <<>>
  ELSE <<highest \div shortest[1]>>

\* variant of Begin: the onset is rounded up
BeginCeil(date, shortest) == Ceil(date, shortest)

\* begin = math.floor(date / shortest_duration)
Begin(date, shortest) == Floor(date, shortest)

\* end = min(math.ceil((date + dur) / shortest_duration), chroma_matrix.shape[1])
End(date, dur, shortest, width) == Min(Ceil(date + dur, shortest), width)

\* np.zeros((12, width)); cells[p + 1][c + 1] is row p, column c
RECURSIVE ZeroRow(_)
ZeroRow(width) == IF width = 0 THEN <<>> ELSE Append(ZeroRow(width - 1), 0)

Zeros(width) ==
  LET row == ZeroRow(width)
  IN <<row, row, row, row, row, row, row, row, row, row, row, row>>

\* row[begin:end] += 1; an empty slice when begin >= end
RECURSIVE AddSlice(_, _, _)
AddSlice(row, begin, end) ==
  IF begin >= end THEN row
  ELSE AddSlice([row EXCEPT ![begin + 1] = @ + 1], begin + 1, end)

\* chroma_matrix after the second loop has handled the first n entries of
\* notes_and_rests
RECURSIVE FillChroma(_, _, _, _)
FillChroma(nr, n, shortest, width) ==
  IF n = 0 THEN Zeros(width)
  ELSE LET note_or_rest == nr[n][2]
       IN IF note_or_rest.pitch # <<>>
          THEN [FillChroma(nr, n - 1, shortest, width)
                  EXCEPT ![(note_or_rest.pitch[1] % 12) + 1] =
                    AddSlice(@, Begin(note_or_rest.date, shortest),
                             End(note_or_rest.date, note_or_rest.dur, shortest, width))]
          ELSE FillChroma(nr, n - 1, shortest, width)

\* id_to_chroma_index after the second loop: one entry per key of
\* notes_and_rests, in its order
ChromaIndex(nr, shortest) ==
  [i \in 1..Len(nr) |-> <<nr[i][1], Begin(nr[i][2].date, shortest)>>]

\* the largest value of column c
ColumnMax(cells, c) ==
  LET vals == {cells[p][c] : p \in 1..12}
  IN CHOOSE m \in vals : \A v \in vals : v <= m

\* the largest value of row p
RowMax(cells, p) ==
  LET vals == {cells[p][c] : c \in 1..Len(cells[p])} \cup {0}
  IN CHOOSE m \in vals : \A v \in vals : v <= m

\* the first c columns of a row, column k divided by lengths[k]; a length below
\* the threshold (here: zero) is replaced by 1
RECURSIVE ScaleRow(_, _, _)
ScaleRow(row, lengths, c) ==
  IF c = 0 THEN <<>>
  ELSE Append(ScaleRow(row, lengths, c - 1),
              Frac(row[c], IF lengths[c] = 0 THEN 1 ELSE lengths[c]))

RECURSIVE ColumnLengths(_, _)
ColumnLengths(cells, c) ==
  IF c = 0 THEN <<>> ELSE Append(ColumnLengths(cells, c - 1), ColumnMax(cells, c))

RECURSIVE RowLengths(_, _, _)
RowLengths(cells, p, c) ==
  IF c = 0 THEN <<>> ELSE Append(RowLengths(cells, p, c - 1), RowMax(cells, p))

\* the first p rows of the matrix scaled along axis 0 / along axis 1
RECURSIVE ScaleColumns(_, _, _)
ScaleColumns(cells, lengths, p) ==
  IF p = 0 THEN <<>>
  ELSE Append(ScaleColumns(cells, lengths, p - 1),
              ScaleRow(cells[p], lengths, Len(cells[p])))

RECURSIVE ScaleRows(_, _)
ScaleRows(cells, p) ==
  IF p = 0 THEN <<>>
  ELSE Append(ScaleRows(cells, p - 1),
              ScaleRow(cells[p], RowLengths(cells, p, Len(cells[p])), Len(cells[p])))

\* variant of Normalize: axis=1, every row is divided by its largest value
NormalizeAxis1(cells) == ScaleRows(cells, 12)

\* librosa.util.normalize(S) with its defaults norm=inf, axis=0: every column
\* is divided by its largest absolute value
Normalize(cells) == ScaleColumns(cells, ColumnLengths(cells, Len(cells[1])), 12)

\* the whole function: raised names the exception, "" when it returns
MeicoToChroma(elems) ==
  LET q == Qualifying(elems)
      nr == NotesAndRests(elems)
      shortest == ShortestDuration(q)
      width == ChromaWidth(shortest, HighestDate(q))
  IN IF width = <<>>
     THEN [raised |-> "ZeroDivisionError", width |-> 0, cells |-> <<>>, index |-> <<>>]
     ELSE LET \* with shortest_duration = np.inf there is no element to divide for
              grid == IF shortest = <<>> THEN 0 ELSE shortest[1]
          IN [raised |-> "", width |-> width[1],
              cells |-> Normalize(FillChroma(nr, Len(nr), grid, width[1])),
              index |-> ChromaIndex(nr, grid)]

----------------------------------------------------------------------------
\* Measure structure of the score document
\*
\* A document has two container elements c[1], c[2] (in document order) and
\* its note/rest elements.  c[1] is a child of the root, c[2] is a child of
\* the root (cparent = 0) or of c[1] (cparent = 1); element i is a child of
\* the root (eparent[i] = 0) or of container eparent[i].

Section == [tag |-> "section", n |-> <<>>, id |-> <<>>]

\* a measure element whose attributes n and xml:id may each be missing
MeasureShapes(number, ident) ==
  [tag : {"measure"}, n : {<<>>, <<number>>}, id : {<<>>, <<ident>>}]

\* containers from the root down to container k, k included
ContainerChain(doc, k) ==
  IF k = 0 THEN <<>>
  ELSE IF k = 2 /\ doc.cparent = 1 THEN <<doc.c[1], doc.c[2]>>
  ELSE <<doc.c[k]>>

\* //*[@xml:id="key"]/ancestor::mei:measure, a node-set in document order
MeasureElems(doc, key) ==
  LET hits == {i \in 1..Len(doc.elems) : doc.elems[i].id = key}
  IN IF hits = {} THEN <<>>
     ELSE LET i == CHOOSE i \in hits : TRUE
          IN SelectSeq(ContainerChain(doc, doc.eparent[i]),
                       LAMBDA a : a.tag = "measure")

\* the loop of get_measure_timestamps over the first n keys of output_json
RECURSIVE MeasureLoop(_, _, _)
MeasureLoop(output_json, doc, n) ==
  IF n = 0 THEN <<>>
  ELSE LET result == MeasureLoop(output_json, doc, n - 1)
           key == output_json[n][1]
           measure_elems == MeasureElems(doc, key)
       IN IF measure_elems = <<>> THEN result
          ELSE LET measure_elem == measure_elems[1]
               IN IF measure_elem.n = <<>> \/ measure_elem.id = <<>> THEN result
                  ELSE Append(result, [measure_number |-> measure_elem.n[1],
                                       measure_id |-> measure_elem.id[1],
                                       timestamp_sec |-> output_json[n][2]])

GetMeasureTimestamps(output_json, doc) ==
  MeasureLoop(output_json, doc, Len(output_json))

----------------------------------------------------------------------------
\* filter_measures_by_tstamp (src/mei.py)

Digits == <<"0", "1", "2", "3", "4", "5", "6", "7", "8", "9">>

IsDecimal(str) ==
  str # <<>> /\ \A i \in 1..Len(str) : \E d \in 1..10 : Digits[d] = str[i]

\* int(str) for a string of decimal digits
RECURSIVE IntOf(_)
IntOf(str) ==
  IF str = <<>> THEN 0
  ELSE LET n == Len(str)
           d == CHOOSE d \in 1..10 : Digits[d] = str[n]
       IN 10 * IntOf(SubSeq(str, 1, n - 1)) + (d - 1)

\* variant of Earlier: the comparison is turned around
Later(timestamp, seen_timestamp) == FracLt(seen_timestamp, timestamp)

\* timestamp < seen[measure_id]['timestamp_sec']
Earlier(timestamp, seen_timestamp) == FracLt(timestamp, seen_timestamp)

\* the loop over the first n lines of measure_timestamps
RECURSIVE SeenLoop(_, _)
SeenLoop(measure_timestamps, n) ==
  IF n = 0 THEN <<>>
  ELSE LET seen == SeenLoop(measure_timestamps, n - 1)
           line == measure_timestamps[n]
       IN IF \/ ~DictHas(seen, line.measure_id)
             \/ Earlier(line.timestamp_sec, DictGet(seen, line.measure_id).timestamp_sec)
          THEN DictPut(seen, line.measure_id, line)
          ELSE seen

\* a < b for strings of decimal digits, compared as strings
StrLess(a, b) ==
  \E k \in 1..Len(b) :
    /\ k <= Len(a) + 1
    /\ \A i \in 1..(k - 1) : a[i] = b[i]
    /\ \/ k = Len(a) + 1
       \/ IntOf(<<a[k]>>) < IntOf(<<b[k]>>)

\* variant of KeyLess: measure_number is compared as a string
KeyLessByString(x, y) ==
  \/ StrLess(x.measure_number, y.measure_number)
  \/ /\ x.measure_number = y.measure_number
     /\ FracLt(x.timestamp_sec, y.timestamp_sec)

\* tuple comparison of the sort keys (int(measure_number), timestamp_sec): x < y
KeyLess(x, y) ==
  \/ IntOf(x.measure_number) < IntOf(y.measure_number)
  \/ /\ IntOf(x.measure_number) = IntOf(y.measure_number)
     /\ FracLt(x.timestamp_sec, y.timestamp_sec)

\* stable insertion of x into a sorted list: after every element not greater than x
Insert(sorted, x) ==
  LET after == {i \in 1..Len(sorted) : ~KeyLess(x, sorted[i])}
      k == IF after = {} THEN 0 ELSE CHOOSE i \in after : \A j \in after : j <= i
  IN SubSeq(sorted, 1, k) \o <<x>> \o SubSeq(sorted, k + 1, Len(sorted))

\* sorted(values, key=...), a stable sort
RECURSIVE Sorted(_)
Sorted(values) ==
  IF values = <<>> THEN <<>>
  ELSE Insert(Sorted(SubSeq(values, 1, Len(values) - 1)), values[Len(values)])

\* the whole function: raised names the exception, "" when it returns
FilterMeasuresByTstamp(measure_timestamps) ==
  LET seen == SeenLoop(measure_timestamps, Len(measure_timestamps))
      values == DictValues(seen)
  IN IF \E i \in 1..Len(values) : ~IsDecimal(values[i].measure_number)
     THEN [raised |-> "ValueError", result |-> <<>>]
     ELSE [raised |-> "", result |-> Sorted(values)]

----------------------------------------------------------------------------
\* Inputs of the run

NoDoc == [elems |-> <<>>, c |-> <<Section, Section>>, cparent |-> 0, eparent |-> <<>>]

NoAudio == [len |-> 0, frame_rate |-> 0, trim_start |-> 0]

NoChroma == [width |-> 0, cells |-> <<>>]

\* elements of the score files of a run
PipeShapes == TimedShapes({60}, 0..PipeMaxDate, 0..PipeMaxDur) \cup UntimedShapes

\* a score file of a run: the elements lie in two sibling measures
PipeDoc(shapes) ==
  [elems |-> Score(shapes),
   c |-> <<[tag |-> "measure", n |-> <<<<"1">>>>, id |-> <<"m1">>],
           [tag |-> "measure", n |-> <<<<"2">>>>, id |-> <<"m2">>]>>,
   cparent |-> 0,
   eparent |-> [i \in 1..Len(shapes) |-> Min(i, 2)]]

\* results of process_audio: sample count, sample rate, leading trim in ms
Audios ==
  {[len |-> 0, frame_rate |-> 2, trim_start |-> 0],
   [len |-> 4, frame_rate |-> 2, trim_start |-> 500]}

\* monotone warp paths from (0, 0) to (i, j), steps (1,0), (0,1), (1,1)
RECURSIVE PathsTo(_, _)
PathsTo(i, j) ==
  IF i = 0 /\ j = 0 THEN {<< <<0, 0>> >>}
  ELSE LET from(a, b) == IF a < 0 \/ b < 0 THEN {}
                         ELSE {Append(q, <<i, j>>) : q \in PathsTo(a, b)}
       IN from(i - 1, j) \cup from(i, j - 1) \cup from(i - 1, j - 1)

Reverse(seq) == [k \in 1..Len(seq) |-> seq[Len(seq) + 1 - k]]

----------------------------------------------------------------------------
\* main (src/main.py)

StageOrder == <<"load_mei", "load_audio", "step1", "step2", "step3", "step4",
                "step5", "step6">>

Init ==
  /\ pc = "load_mei"
  /\ executed = <<>>
  /\ failed = <<>>
  /\ exit_status = <<>>
  /\ mei_xml = NoDoc
  /\ audio = NoAudio
  /\ chroma_mei = NoChroma
  /\ id_to_chroma_index = <<>>
  /\ chroma_audio = 0
  /\ path = <<>>
  /\ path_dict = <<>>
  /\ id_to_time = <<>>
  /\ tmp_output = <<>>
  /\ mapping = <<>>
  /\ filtered_mapping = <<>>

\* the except clause of a stage: report, then sys.exit(1)
Exit(stage) ==
  /\ pc' = "exited"
  /\ executed' = Append(executed, stage)
  /\ failed' = Append(failed, stage)
  /\ exit_status' = <<1>>

\* a stage ran through; control falls to the next one
Proceed(stage, next) ==
  /\ pc' = next
  /\ executed' = Append(executed, stage)
  /\ UNCHANGED <<failed, exit_status>>

LoadMei ==
  /\ pc = "load_mei"
  /\ \E n \in 0..PipeMaxElems : \E shapes \in [1..n -> PipeShapes] :
       mei_xml' = PipeDoc(shapes)
  /\ Proceed("load_mei", "load_audio")
  /\ UNCHANGED <<audio, chroma_mei, id_to_chroma_index, chroma_audio, path,
                 path_dict, id_to_time, tmp_output, mapping, filtered_mapping>>

LoadMeiFail ==
  /\ pc = "load_mei"
  /\ Exit("load_mei")
  /\ UNCHANGED <<mei_xml, audio, chroma_mei, id_to_chroma_index, chroma_audio,
                 path, path_dict, id_to_time, tmp_output, mapping, filtered_mapping>>

LoadAudio ==
  /\ pc = "load_audio"
  /\ \E a \in Audios : audio' = a
  /\ Proceed("load_audio", "step1")
  /\ UNCHANGED <<mei_xml, chroma_mei, id_to_chroma_index, chroma_audio, path,
                 path_dict, id_to_time, tmp_output, mapping, filtered_mapping>>

LoadAudioFail ==
  /\ pc = "load_audio"
  /\ Exit("load_audio")
  /\ UNCHANGED <<mei_xml, audio, chroma_mei, id_to_chroma_index, chroma_audio,
                 path, path_dict, id_to_time, tmp_output, mapping, filtered_mapping>>

\* Step 1: chroma_mei, id_to_chroma_index = mei_to_chroma(mei_xml)
Step1 ==
  /\ pc = "step1"
  /\ LET r == MeicoToChroma(mei_xml.elems)
     IN /\ r.raised = ""
        /\ chroma_mei' = [width |-> r.width, cells |-> r.cells]
        /\ id_to_chroma_index' = r.index
  /\ Proceed("step1", "step2")
  /\ UNCHANGED <<mei_xml, audio, chroma_audio, path, path_dict, id_to_time,
                 tmp_output, mapping, filtered_mapping>>

Step1Fail ==
  /\ pc = "step1"
  /\ MeicoToChroma(mei_xml.elems).raised # ""
  /\ Exit("step1")
  /\ UNCHANGED <<mei_xml, audio, chroma_mei, id_to_chroma_index, chroma_audio,
                 path, path_dict, id_to_time, tmp_output, mapping, filtered_mapping>>

\* chroma_size = round(len(audio_data) / chroma_mei.shape[1]); <<>> when the
\* division raises
ChromaSize(len, width) == IF width = 0 THEN <<>> ELSE <<Round(len, width)>>

\* librosa rejects a hop_length that is not a positive integer
Step2Raises == LET size == ChromaSize(audio.len, chroma_mei.width)
               IN IF size = <<>> THEN TRUE ELSE size[1] = 0

\* Step 2: the audio chroma matrix; its column count is the library's
Step2 ==
  /\ pc = "step2"
  /\ ~Step2Raises
  /\ \E cols \in 1..MaxAudioCols : chroma_audio' = cols
  /\ Proceed("step2", "step3")
  /\ UNCHANGED <<mei_xml, audio, chroma_mei, id_to_chroma_index, path, path_dict,
                 id_to_time, tmp_output, mapping, filtered_mapping>>

Step2Fail ==
  /\ pc = "step2"
  /\ Step2Raises
  /\ Exit("step2")
  /\ UNCHANGED <<mei_xml, audio, chroma_mei, id_to_chroma_index, chroma_audio,
                 path, path_dict, id_to_time, tmp_output, mapping, filtered_mapping>>

\* Step 3: the warp path (in either direction of iteration) and path_dict
Step3 ==
  /\ pc = "step3"
  /\ \E p \in PathsTo(chroma_mei.width - 1, chroma_audio - 1), rev \in BOOLEAN :
       /\ path' = IF rev THEN Reverse(p) ELSE p
       /\ path_dict' = DictFromPairs(path')
  /\ Proceed("step3", "step4")
  /\ UNCHANGED <<mei_xml, audio, chroma_mei, id_to_chroma_index, chroma_audio,
                 id_to_time, tmp_output, mapping, filtered_mapping>>

\* the DTW call raises
Step3Fail ==
  /\ pc = "step3"
  /\ Exit("step3")
  /\ UNCHANGED <<mei_xml, audio, chroma_mei, id_to_chroma_index, chroma_audio,
                 path, path_dict, id_to_time, tmp_output, mapping, filtered_mapping>>

\* variant of TimeOf: the trim offset is subtracted
TimeOfTrimSubtracted(audio_column, a, cols) ==
  Frac(audio_column * a.len * 1000 - a.trim_start * a.frame_rate * cols,
       a.frame_rate * cols * 1000)

\* path_dict[column] * chroma_length + trim_start / 1000, in seconds, with
\* chroma_length = len(audio_data) / frame_rate / chroma_audio.shape[1]
TimeOf(audio_column, a, cols) ==
  Frac(audio_column * a.len * 1000 + a.trim_start * a.frame_rate * cols,
       a.frame_rate * cols * 1000)

\* the loop of step 4 over the first n identifiers; <<>> stands for an
\* exception (KeyError, ZeroDivisionError), <<dict>> for the result
RECURSIVE TimeLoop(_, _, _, _, _)
TimeLoop(index, n, pd, a, cols) ==
  IF a.frame_rate = 0 \/ cols = 0 THEN <<>>
  ELSE IF n = 0 THEN << <<>> >>
  ELSE LET prev == TimeLoop(index, n - 1, pd, a, cols)
       IN IF prev = <<>> \/ ~DictHas(pd, index[n][2]) THEN <<>>
          ELSE <<DictPut(prev[1], index[n][1], TimeOf(DictGet(pd, index[n][2]), a, cols))>>

\* Step 4: id_to_time
Step4 ==
  /\ pc = "step4"
  /\ LET r == TimeLoop(id_to_chroma_index, Len(id_to_chroma_index), path_dict,
                       audio, chroma_audio)
     IN IF r = <<>>
        THEN Exit("step4") /\ UNCHANGED id_to_time
        ELSE id_to_time' = r[1] /\ Proceed("step4", "step5")
  /\ UNCHANGED <<mei_xml, audio, chroma_mei, id_to_chroma_index, chroma_audio,
                 path, path_dict, tmp_output, mapping, filtered_mapping>>

\* json.dump / json.load of a dict of floats: the pairs in insertion order
JsonDump(d) == [i \in 1..Len(d) |-> <<d[i][1], d[i][2]>>]

JsonLoad(text) == DictFromPairs(text)

\* Step 5: write tmp_output.json
Step5 ==
  /\ pc = "step5"
  /\ tmp_output' = JsonDump(id_to_time)
  /\ Proceed("step5", "step6")
  /\ UNCHANGED <<mei_xml, audio, chroma_mei, id_to_chroma_index, chroma_audio,
                 path, path_dict, id_to_time, mapping, filtered_mapping>>

\* variant of Step5Fail: the handler reports the error and goes on
Step5FailContinues ==
  /\ pc = "step5"
  /\ pc' = "step6"
  /\ executed' = Append(executed, "step5")
  /\ failed' = Append(failed, "step5")
  /\ UNCHANGED <<exit_status, mei_xml, audio, chroma_mei, id_to_chroma_index,
                 chroma_audio, path, path_dict, id_to_time, tmp_output, mapping,
                 filtered_mapping>>

\* the file cannot be written
Step5Fail ==
  /\ pc = "step5"
  /\ Exit("step5")
  /\ UNCHANGED <<mei_xml, audio, chroma_mei, id_to_chroma_index, chroma_audio,
                 path, path_dict, id_to_time, tmp_output, mapping, filtered_mapping>>

\* Step 6: reload the file, look up the measures, reduce
Step6 ==
  /\ pc = "step6"
  /\ LET m == GetMeasureTimestamps(JsonLoad(tmp_output), mei_xml)
         f == FilterMeasuresByTstamp(m)
     IN /\ f.raised = ""
        /\ mapping' = m
        /\ filtered_mapping' = f.result
  /\ pc' = "done"
  /\ executed' = Append(executed, "step6")
  /\ exit_status' = <<0>>
  /\ UNCHANGED <<failed, mei_xml, audio, chroma_mei, id_to_chroma_index,
                 chroma_audio, path, path_dict, id_to_time, tmp_output>>

\* the file cannot be read back
Step6Fail ==
  /\ pc = "step6"
  /\ Exit("step6")
  /\ UNCHANGED <<mei_xml, audio, chroma_mei, id_to_chroma_index, chroma_audio,
                 path, path_dict, id_to_time, tmp_output, mapping, filtered_mapping>>

Next ==
  \/ LoadMei \/ LoadMeiFail
  \/ LoadAudio \/ LoadAudioFail
  \/ Step1 \/ Step1Fail
  \/ Step2 \/ Step2Fail
  \/ Step3 \/ Step3Fail
  \/ Step4
  \/ Step5 \/ Step5Fail
  \/ Step6 \/ Step6Fail

Spec == Init /\ [][Next]_vars

----------------------------------------------------------------------------
\* _meico_to_chroma on its own, over all bounded scores

Idle ==
  /\ executed = <<>>
  /\ failed = <<>>
  /\ exit_status = <<>>
  /\ audio = NoAudio
  /\ chroma_audio = 0
  /\ path = <<>>
  /\ path_dict = <<>>
  /\ tmp_output = <<>>

\* a document whose elements are children of the root
FlatDoc(shapes) ==
  [elems |-> Score(shapes), c |-> <<Section, Section>>, cparent |-> 0,
   eparent |-> [i \in 1..Len(shapes) |-> 0]]

InitChroma ==
  /\ pc = "chroma_call"
  /\ \E n \in 0..MaxElems : \E shapes \in [1..n -> ElementShapes(MaxDate, MaxDur)] :
       mei_xml = FlatDoc(shapes)
  /\ chroma_mei = NoChroma
  /\ id_to_chroma_index = <<>>
  /\ id_to_time = <<>>
  /\ mapping = <<>>
  /\ filtered_mapping = <<>>
  /\ Idle

ChromaReturns ==
  /\ pc = "chroma_call"
  /\ LET r == MeicoToChroma(mei_xml.elems)
     IN /\ r.raised = ""
        /\ chroma_mei' = [width |-> r.width, cells |-> r.cells]
        /\ id_to_chroma_index' = r.index
  /\ pc' = "chroma_returned"
  /\ UNCHANGED <<executed, failed, exit_status, mei_xml, audio, chroma_audio, path,
                 path_dict, id_to_time, tmp_output, mapping, filtered_mapping>>

ChromaRaises ==
  /\ pc = "chroma_call"
  /\ MeicoToChroma(mei_xml.elems).raised # ""
  /\ pc' = "chroma_raised"
  /\ UNCHANGED <<executed, failed, exit_status, mei_xml, audio, chroma_mei,
                 id_to_chroma_index, chroma_audio, path, path_dict, id_to_time,
                 tmp_output, mapping, filtered_mapping>>

NextChroma == ChromaReturns \/ ChromaRaises

SpecChroma == InitChroma /\ [][NextChroma]_vars

----------------------------------------------------------------------------
\* _meico_to_chroma on scores of overlapping notes and rests, durations positive

InitOverlap ==
  /\ pc = "chroma_call"
  /\ \E n \in 0..OverlapElems :
       \E shapes \in [1..n -> TimedShapes(PNums, 0..OverlapMaxDate, 1..OverlapMaxDur)] :
         mei_xml = FlatDoc(shapes)
  /\ chroma_mei = NoChroma
  /\ id_to_chroma_index = <<>>
  /\ id_to_time = <<>>
  /\ mapping = <<>>
  /\ filtered_mapping = <<>>
  /\ Idle

NextOverlap == ChromaReturns

SpecOverlap == InitOverlap /\ [][NextOverlap]_vars

----------------------------------------------------------------------------
\* get_measure_timestamps on its own, over all bounded documents

Timestamps == {Frac(t, 2) : t \in 0..MaxTs}

ContainerShapes(number, ident) == {Section} \cup MeasureShapes(number, ident)

\* two elements e1, e2 anywhere in the container tree
MeasureDocs ==
  {[elems |-> Score(<<[tag |-> "note", pnum |-> 60, hasDur |-> TRUE, date |-> 0, dur |-> 1],
                      [tag |-> "note", pnum |-> 60, hasDur |-> TRUE, date |-> 1, dur |-> 1]>>),
    c |-> <<c1, c2>>, cparent |-> cp, eparent |-> ep]
     : c1 \in ContainerShapes(<<"1">>, "m1"),
       c2 \in ContainerShapes(<<"2">>, "m2"),
       cp \in {0, 1},
       ep \in [1..2 -> 0..2]}

\* dicts of at most two timestamps; the key e9 is no identifier of the document
OutputJsons ==
  LET pairs == {"e1", "e2", "e9"} \X Timestamps
  IN {<<>>} \cup {<<x>> : x \in pairs}
            \cup {d \in {<<x, y>> : x \in pairs, y \in pairs} : d[1][1] # d[2][1]}

InitMeasure ==
  /\ pc = "measure_call"
  /\ mei_xml \in MeasureDocs
  /\ id_to_time \in OutputJsons
  /\ chroma_mei = NoChroma
  /\ id_to_chroma_index = <<>>
  /\ mapping = <<>>
  /\ filtered_mapping = <<>>
  /\ Idle

MeasureReturns ==
  /\ pc = "measure_call"
  /\ mapping' = GetMeasureTimestamps(id_to_time, mei_xml)
  /\ pc' = "measure_returned"
  /\ UNCHANGED <<executed, failed, exit_status, mei_xml, audio, chroma_mei,
                 id_to_chroma_index, chroma_audio, path, path_dict, id_to_time,
                 tmp_output, filtered_mapping>>

NextMeasure == MeasureReturns

SpecMeasure == InitMeasure /\ [][NextMeasure]_vars

----------------------------------------------------------------------------
\* filter_measures_by_tstamp on its own, over all bounded lists

MeasureEntries ==
  [measure_number : {<<"2">>, <<"1", "0">>, <<"x">>},
   measure_id : {"m1", "m2"},
   timestamp_sec : Timestamps]

InitFilter ==
  /\ pc = "filter_call"
  /\ \E n \in 0..MaxEntries : mapping \in [1..n -> MeasureEntries]
  /\ mei_xml = NoDoc
  /\ chroma_mei = NoChroma
  /\ id_to_chroma_index = <<>>
  /\ id_to_time = <<>>
  /\ filtered_mapping = <<>>
  /\ Idle

FilterReturns ==
  /\ pc = "filter_call"
  /\ LET f == FilterMeasuresByTstamp(mapping)
     IN /\ f.raised = ""
        /\ filtered_mapping' = f.result
  /\ pc' = "filter_returned"
  /\ UNCHANGED <<executed, failed, exit_status, mei_xml, audio, chroma_mei,
                 id_to_chroma_index, chroma_audio, path, path_dict, id_to_time,
                 tmp_output, mapping>>

FilterRaises ==
  /\ pc = "filter_call"
  /\ FilterMeasuresByTstamp(mapping).raised # ""
  /\ pc' = "filter_raised"
  /\ UNCHANGED <<executed, failed, exit_status, mei_xml, audio, chroma_mei,
                 id_to_chroma_index, chroma_audio, path, path_dict, id_to_time,
                 tmp_output, mapping, filtered_mapping>>

NextFilter == FilterReturns \/ FilterRaises

SpecFilter == InitFilter /\ [][NextFilter]_vars

----------------------------------------------------------------------------
\* Properties

Range(seq) == {seq[i] : i \in 1..Len(seq)}

\* the elements of the score that carry a duration
WithDuration == {i \in 1..Len(mei_xml.elems) : mei_xml.elems[i].hasDur}

\* the smallest duration and the largest onset + duration among them
MinDuration ==
  LET durs == {mei_xml.elems[i].dur : i \in WithDuration}
  IN CHOOSE m \in durs : \A d \in durs : m <= d

MaxEnd ==
  LET ends == {mei_xml.elems[i].date + mei_xml.elems[i].dur : i \in WithDuration}
  IN CHOOSE m \in ends : \A e \in ends : e <= m

One == <<1, 1>>

Zero == <<0, 1>>

\* C1: the list returned by filter_measures_by_tstamp has exactly one entry
\* for every measure_id of the input and none for any other; the entry is
\* one of the input entries and no input entry of the same measure_id has a
\* smaller timestamp_sec.
C1_Reduction ==
  pc = "filter_returned" =>
    /\ {e.measure_id : e \in Range(filtered_mapping)} = {e.measure_id : e \in Range(mapping)}
    /\ \A i, j \in 1..Len(filtered_mapping) :
         filtered_mapping[i].measure_id = filtered_mapping[j].measure_id => i = j
    /\ \A e \in Range(filtered_mapping) :
         /\ e \in Range(mapping)
         /\ \A l \in Range(mapping) :
              l.measure_id = e.measure_id => FracLe(e.timestamp_sec, l.timestamp_sec)

\* a later line of the input replaced an earlier one of the same measure
C1_Witness ==
  /\ pc = "filter_returned"
  /\ Len(filtered_mapping) < Len(mapping)
  /\ \E i, j \in 1..Len(mapping) :
       /\ i < j
       /\ mapping[i].measure_id = mapping[j].measure_id
       /\ FracLt(mapping[j].timestamp_sec, mapping[i].timestamp_sec)
       /\ mapping[j] \in Range(filtered_mapping)

\* C2: in the list returned by filter_measures_by_tstamp, measure_number as
\* an integer never decreases from one entry to the next, and between
\* entries of equal measure_number timestamp_sec never decreases.
C2_Ordering ==
  pc = "filter_returned" =>
    \A i \in 1..(Len(filtered_mapping) - 1) :
      LET x == filtered_mapping[i]
          y == filtered_mapping[i + 1]
      IN /\ IntOf(x.measure_number) <= IntOf(y.measure_number)
         /\ IntOf(x.measure_number) = IntOf(y.measure_number)
              => FracLe(x.timestamp_sec, y.timestamp_sec)

\* measure 10 was seen before measure 2 and the sort put 2 first
C2_Witness ==
  /\ pc = "filter_returned"
  /\ Len(filtered_mapping) = 2
  /\ mapping[1].measure_number = <<"1", "0">>
  /\ filtered_mapping[1].measure_number = <<"2">>
  /\ filtered_mapping[2].measure_number = <<"1", "0">>

\* C3: for a score with at least one duration-bearing element, all durations
\* positive, the returned matrix has ceil(highest_end / shortest_duration)
\* columns.
C3_CeilWidth ==
  (pc = "chroma_returned" /\ WithDuration # {}) =>
    chroma_mei.width = Ceil(MaxEnd, MinDuration)

\* C4 as stated: every row of the returned matrix is all zero or has
\* largest value 1.
C4_RowsNormalized ==
  pc = "chroma_returned" =>
    \A p \in 1..12 :
      LET row == Range(chroma_mei.cells[p])
      IN row \subseteq {Zero} \/ (One \in row /\ \A v \in row : FracLe(v, One))

\* C4 amended: every column of the returned matrix is all zero or has
\* largest value 1.
C4_ColumnsNormalized ==
  pc = "chroma_returned" =>
    \A c \in 1..chroma_mei.width :
      LET col == {chroma_mei.cells[p][c] : p \in 1..12}
      IN col = {Zero} \/ (One \in col /\ \A v \in col : FracLe(v, One))

\* two pitch classes sound in one column with different overlap counts
C4_Witness ==
  /\ pc = "chroma_returned"
  /\ \E p \in 1..12, c \in 1..chroma_mei.width : chroma_mei.cells[p][c] = <<1, 2>>

\* C5: id_to_chroma_index has exactly one entry for every note or rest that
\* has a duration, none for any other element, and the entry is
\* floor(onset / shortest_duration).
C5_IndexMap ==
  pc = "chroma_returned" =>
    /\ DictKeys(id_to_chroma_index) = {mei_xml.elems[i].id : i \in WithDuration}
    /\ Len(id_to_chroma_index) = Cardinality(WithDuration)
    /\ \A i \in WithDuration :
         DictGet(id_to_chroma_index, mei_xml.elems[i].id)
           = Floor(mei_xml.elems[i].date, MinDuration)

\* a rest with a duration, an element without one, and an onset that is no
\* multiple of the shortest duration
C5_Witness ==
  /\ pc = "chroma_returned"
  /\ \E i \in WithDuration : mei_xml.elems[i].tag = "rest"
  /\ \E i \in 1..Len(mei_xml.elems) : ~mei_xml.elems[i].hasDur
  /\ \E i \in WithDuration :
       /\ mei_xml.elems[i].date % MinDuration # 0
       /\ DictGet(id_to_chroma_index, mei_xml.elems[i].id) = 0

\* step 1 has run and returned / step 4 has run and returned
Step1Returned == "step1" \in Range(executed) /\ failed # <<"step1">>

Step4Returned == "step4" \in Range(executed) /\ failed # <<"step4">>

\* C6 as stated: with no duration-bearing note or rest in the score, step 1
\* itself fails.
C6_BuilderFails ==
  ("step1" \in Range(executed) /\ WithDuration = {}) => failed = <<"step1">>

\* C6 amended: with no duration-bearing note or rest in the score, step 1
\* returns a matrix of zero columns and an empty identifier map; step 2 then
\* fails, the run exits with status 1 and step 3 is never entered.
C6_ZeroColumns ==
  ("step1" \in Range(executed) /\ WithDuration = {}) =>
    /\ failed # <<"step1">>
    /\ chroma_mei.width = 0
    /\ chroma_mei.cells = Zeros(0)
    /\ id_to_chroma_index = <<>>
    /\ pc \in {"step2", "exited"}
    /\ pc = "exited" => failed = <<"step2">> /\ exit_status = <<1>>
    /\ "step3" \notin Range(executed)

\* an empty score and a non-empty audio buffer: step 2 failed
C6_Witness ==
  /\ WithDuration = {}
  /\ audio.len > 0
  /\ pc = "exited"
  /\ failed = <<"step2">>

\* C7: the stages are entered in the fixed order; a stage that raises is the
\* last one entered, the run has then exited with status 1, and status 1
\* arises in no other way; step 6 is entered only after all earlier stages
\* returned.
C7_FailFast ==
  /\ Len(executed) <= Len(StageOrder)
  /\ executed = SubSeq(StageOrder, 1, Len(executed))
  /\ Len(failed) <= 1
  /\ failed # <<>> =>
       /\ failed[1] = executed[Len(executed)]
       /\ pc = "exited"
       /\ exit_status = <<1>>
  /\ exit_status = <<1>> => failed # <<>>
  /\ pc = "exited" => exit_status = <<1>>
  /\ "step6" \in Range(executed) => failed \in {<<>>, <<"step6">>}
  /\ pc = "done" => executed = StageOrder /\ failed = <<>> /\ exit_status = <<0>>

\* step 5 raised after four stages had produced their results
C7_Witness ==
  /\ pc = "exited"
  /\ failed = <<"step5">>
  /\ executed = SubSeq(StageOrder, 1, 7)
  /\ id_to_time # <<>>

\* C8: every column stored in id_to_chroma_index is a column of the matrix
\* that was allocated; once the warp path is there it maps every such
\* column, and step 4 never raises.
C8_ColumnsMapped ==
  /\ Step1Returned =>
       \A i \in 1..Len(id_to_chroma_index) :
         id_to_chroma_index[i][2] \in 0..(chroma_mei.width - 1)
  /\ "step3" \in Range(executed) /\ failed # <<"step3">> =>
       /\ DictKeys(path_dict) = 0..(chroma_mei.width - 1)
       /\ \A i \in 1..Len(id_to_chroma_index) :
            DictHas(path_dict, id_to_chroma_index[i][2])
  /\ failed # <<"step4">>

\* step 4 looked up the last column of a matrix whose width was rounded down
C8_Witness ==
  /\ pc = "step5"
  /\ MaxEnd % MinDuration # 0
  /\ \E i \in 1..Len(id_to_chroma_index) :
       id_to_chroma_index[i][2] = chroma_mei.width - 1
  /\ Len(id_to_time) = Len(id_to_chroma_index)

\* the entries get_measure_timestamps would produce from the innermost
\* enclosing measure of every key
RECURSIVE InnermostLoop(_, _, _)
InnermostLoop(output_json, doc, n) ==
  IF n = 0 THEN <<>>
  ELSE LET result == InnermostLoop(output_json, doc, n - 1)
           measures == MeasureElems(doc, output_json[n][1])
       IN IF measures = <<>> THEN result
          ELSE LET inner == measures[Len(measures)]
               IN IF inner.n = <<>> \/ inner.id = <<>> THEN result
                  ELSE Append(result, [measure_number |-> inner.n[1],
                                       measure_id |-> inner.id[1],
                                       timestamp_sec |-> output_json[n][2]])

\* C9: every entry returned by get_measure_timestamps carries the number and
\* identifier of the innermost measure enclosing its element; an element
\* with no enclosing measure yields no entry.
C9_InnermostMeasure ==
  pc = "measure_returned" =>
    mapping = InnermostLoop(id_to_time, mei_xml, Len(id_to_time))

\* C10: the score_column -> audio_column mapping never decreases; an
\* identifier in an earlier or equal column never gets a later timestamp than
\* one in a later column, and no timestamp lies before trim_start / 1000.
C10_OrderPreserved ==
  /\ \A i, j \in 1..Len(path_dict) :
       path_dict[i][1] <= path_dict[j][1] => path_dict[i][2] <= path_dict[j][2]
  /\ Step4Returned =>
       /\ DictKeys(id_to_time) = DictKeys(id_to_chroma_index)
       /\ \A a, b \in DictKeys(id_to_chroma_index) :
            DictGet(id_to_chroma_index, a) <= DictGet(id_to_chroma_index, b)
              => FracLe(DictGet(id_to_time, a), DictGet(id_to_time, b))
       /\ \A i \in 1..Len(id_to_time) :
            /\ FracLe(Frac(audio.trim_start, 1000), id_to_time[i][2])
            /\ FracLe(Zero, id_to_time[i][2])

\* the path visits a score column twice, the audio was trimmed, and two
\* identifiers in different columns got different timestamps
C10_Witness ==
  /\ Step4Returned
  /\ Len(path) > Len(path_dict)
  /\ audio.trim_start > 0
  /\ \E a, b \in DictKeys(id_to_chroma_index) :
       /\ DictGet(id_to_chroma_index, a) < DictGet(id_to_chroma_index, b)
       /\ FracLt(DictGet(id_to_time, a), DictGet(id_to_time, b))

====
